---------------------------- MODULE Spec2Model ----------------------------
(***************************************************************************)
(* Leave-out polarization estimator of experiments/methods/pacte.py:       *)
(* get_news_token_counts, get_party_q, get_rho, get_token_user_counts,     *)
(* chi_square, calculate_polarization and the pipeline get_leaveout_score. *)
(*                                                                         *)
(* Conventions.  A count matrix is a record [cols |-> V, rows |-> seq of   *)
(* rows], a row is a sequence of V naturals.  Python index i (0-based) is  *)
(* position i + 1 of the sequence.  Floating point numbers are modelled as *)
(* exact rationals <<n, d>> in lowest terms with d > 0; <<0, 0>> is NaN,   *)
(* <<1, 0>> is +inf and <<-1, 0>> is -inf, with numpy's rules for them.    *)
(***************************************************************************)
EXTENDS Integers, Sequences, FiniteSets, TLC

\* ------------------------------------------------------------------ bounds
\* vocabulary size len(id2word)
NumTokens == 2
\* largest count in one (token_id, count) pair
MaxCount == 1
\* largest number of (token_id, count) pairs in one document
MaxPairs == 2
\* largest number of documents in one corpus
MaxGroupDocs == 2
\* largest value of min_docs and of max_docs (both start at 1)
MaxDocsArg == 2
\* number of states of the pseudo random generators
RngModulus == 16
\* how often other code draws from the module-level generator
MaxGlobalDraws == 1

\* ------------------------------------------------------- program constants
\* RNG.seed(42)
Seed == 42

\* Python's None where an integer is expected (exclude_user_id = None)
PyNone == -1

\* ------------------------------------------------------ sequence utilities
RECURSIVE SumSeq(_)
SumSeq(s) == IF s = <<>> THEN 0 ELSE Head(s) + SumSeq(Tail(s))

\* the sequence f with every element evaluated (once)
Vec(f) == f \o <<>>

\* the subsequence of s at the positions (1-based) listed in idx, in idx's order
Take(s, idx) == Vec([k \in 1..Len(idx) |-> s[idx[k]]])

\* the positions of s that satisfy the mask, ascending
RECURSIVE MaskPositions(_, _)
MaskPositions(mask, k) ==
    IF k > Len(mask) THEN <<>>
    ELSE (IF mask[k] THEN <<k>> ELSE <<>>) \o MaskPositions(mask, k + 1)

\* ------------------------------------------------------- float arithmetic
Abs(x) == IF x < 0 THEN -x ELSE x
Sign(x) == IF x < 0 THEN -1 ELSE IF x > 0 THEN 1 ELSE 0

RECURSIVE GCD(_, _)
GCD(a, b) == IF b = 0 THEN a ELSE GCD(b, a % b)

NaN == <<0, 0>>
Inf == <<1, 0>>
IsNaN(a) == a[2] = 0 /\ a[1] = 0
IsInf(a) == a[2] = 0 /\ a[1] # 0
IsFinite(a) == a[2] # 0

\* the float n / d of two integers, numpy semantics for d = 0
Frac(n, d) ==
    IF d = 0 THEN <<Sign(n), 0>>
    ELSE LET g == GCD(Abs(n), Abs(d))
         IN <<(Sign(d) * n) \div g, Abs(d) \div g>>

Num(n) == <<n, 1>>

FAdd(a, b) ==
    IF IsNaN(a) \/ IsNaN(b) THEN NaN
    ELSE IF IsInf(a) /\ IsInf(b) THEN (IF a[1] = b[1] THEN a ELSE NaN)
    ELSE IF IsInf(a) THEN a
    ELSE IF IsInf(b) THEN b
    ELSE Frac(a[1] * b[2] + b[1] * a[2], a[2] * b[2])

FNeg(a) == <<-a[1], a[2]>>

FSub(a, b) == FAdd(a, FNeg(b))

FMul(a, b) ==
    IF IsNaN(a) \/ IsNaN(b) THEN NaN
    ELSE IF IsInf(a) \/ IsInf(b)
         THEN (IF a[1] = 0 \/ b[1] = 0 THEN NaN ELSE <<Sign(a[1]) * Sign(b[1]), 0>>)
    ELSE Frac(a[1] * b[1], a[2] * b[2])

FDiv(a, b) ==
    IF IsNaN(a) \/ IsNaN(b) THEN NaN
    ELSE IF IsInf(a) THEN (IF IsInf(b) THEN NaN
                           ELSE <<a[1] * (IF b[1] < 0 THEN -1 ELSE 1), 0>>)
    ELSE IF IsInf(b) THEN Num(0)
    ELSE Frac(a[1] * b[2], a[2] * b[1])

RECURSIVE FSum(_)
FSum(s) == IF s = <<>> THEN Num(0) ELSE FAdd(Head(s), FSum(Tail(s)))

\* ------------------------------------------------------------ input space
Tokens == 0..(NumTokens - 1)
Pairs == Tokens \X (1..MaxCount)
\* a document: a sequence of (token_id, count) pairs, listed by ascending
\* token id (a token may come twice; the order of the pairs has no effect on
\* the count matrix)
Docs ==
    {doc \in UNION {[1..n -> Pairs] : n \in 0..MaxPairs} :
        \A k \in 1..(Len(doc) - 1) : doc[k][1] <= doc[k + 1][1]}

\* ------------------------------------------------- get_news_token_counts
\* DocTokenCount keeping the last pair of a token instead of adding them
RECURSIVE DocTokenCount_last(_, _)
DocTokenCount_last(doc, t) ==
    IF doc = <<>> THEN 0
    ELSE IF doc[Len(doc)][1] = t THEN doc[Len(doc)][2]
    ELSE DocTokenCount_last(SubSeq(doc, 1, Len(doc) - 1), t)

\* entry [i, t]: the coo triplets (i, j, count) of document i, duplicates added
RECURSIVE DocTokenCount(_, _)
DocTokenCount(doc, t) ==
    IF doc = <<>> THEN 0
    ELSE (IF Head(doc)[1] = t THEN Head(doc)[2] ELSE 0) + DocTokenCount(Tail(doc), t)

get_news_token_counts(corpus, idx2word) ==
    [cols |-> idx2word,
     rows |-> Vec([i \in 1..Len(corpus) |->
                  Vec([c \in 1..idx2word |-> DocTokenCount(corpus[i], c - 1)])])]

\* ---------------------------------------------------- matrix operations
Shape0(m) == Len(m.rows)
Shape1(m) == m.cols

\* m[idx, :] for an index array of 0-based row numbers
RowSelect(m, idx) ==
    [cols |-> m.cols, rows |-> Vec([k \in 1..Len(idx) |-> m.rows[idx[k] + 1]])]

\* m[mask, :] for a boolean mask over the rows
RowMask(m, mask) == [cols |-> m.cols, rows |-> Take(m.rows, MaskPositions(mask, 1))]

\* m[:, mask] for a boolean mask over the columns
ColMask(m, mask) ==
    LET keep == MaskPositions(mask, 1)
    IN [cols |-> Len(keep), rows |-> Vec([i \in 1..Len(m.rows) |-> Take(m.rows[i], keep)])]

\* m[:k] and m[:k, :]
RowsUpTo(m, k) ==
    [cols |-> m.cols, rows |-> SubSeq(m.rows, 1, IF k < Len(m.rows) THEN k ELSE Len(m.rows))]

\* m[k:, :]
RowsFrom(m, k) == [cols |-> m.cols, rows |-> SubSeq(m.rows, k + 1, Len(m.rows))]

\* sp.vstack([a, b])
VStack(a, b) == [cols |-> a.cols, rows |-> a.rows \o b.rows]

\* m with row i (0-based) removed
RemoveRow(m, i) ==
    [cols |-> m.cols, rows |-> SubSeq(m.rows, 1, i) \o SubSeq(m.rows, i + 2, Len(m.rows))]

\* m.sum(axis=0)
ColSums(m) == Vec([c \in 1..m.cols |-> SumSeq([i \in 1..Len(m.rows) |-> m.rows[i][c]])])

\* m.sum(axis=1)
RowSums(m) == Vec([i \in 1..Len(m.rows) |-> SumSeq(m.rows[i])])

\* the 0-based row numbers that hold a nonzero entry: set(m.nonzero()[0])
NonzeroRows(m) == {i \in 0..(Len(m.rows) - 1) : \E c \in 1..m.cols : m.rows[i + 1][c] # 0}

\* the number of rows with a nonzero entry in column c (1-based)
UsersOf(m, c) == Cardinality({i \in 1..Len(m.rows) : m.rows[i][c] # 0})

\* ------------------------------------------------------- party statistics
\* Python truth value of an optional integer: None and 0 are both false
Truthy(x) == x # PyNone /\ x # 0

get_party_q(party_counts, exclude_user_id) ==
    LET full == ColSums(party_counts)
        user_sum == IF Truthy(exclude_user_id)
                    THEN Vec([c \in 1..party_counts.cols |->
                                 full[c] - party_counts.rows[exclude_user_id + 1][c]])
                    ELSE full
        total_sum == SumSeq(user_sum)
    IN Vec([c \in 1..party_counts.cols |-> Frac(user_sum[c], total_sum)])

\* get_rho with the numerator of the other group
\* the ratio rep_q / dem_q in place of the share of rep_q
get_rho_ratio(dem_q, rep_q) ==
    Vec([c \in 1..Len(dem_q) |-> FDiv(rep_q[c], dem_q[c])])

get_rho_dem(dem_q, rep_q) ==
    Vec([c \in 1..Len(dem_q) |-> FDiv(dem_q[c], FAdd(dem_q[c], rep_q[c]))])

get_rho(dem_q, rep_q) ==
    Vec([c \in 1..Len(dem_q) |-> FDiv(rep_q[c], FAdd(dem_q[c], rep_q[c]))])

\* the scores of group 2 used for group 1 as they are
OneMinus_same(v) == v

\* the scores of group 2 negated, without the 1.
OneMinus_negated(v) == Vec([c \in 1..Len(v) |-> FNeg(v[c])])

\* 1. - token_scores
OneMinus(v) == Vec([c \in 1..Len(v) |-> FSub(Num(1), v[c])])

\* get_token_user_counts adding the counts instead of the users
\* get_token_user_counts starting from np.zeros: no add-one smoothing
get_token_user_counts_unsmoothed(party_counts) ==
    Vec([c \in 1..Shape1(party_counts) |-> UsersOf(party_counts, c)])

get_token_user_counts_magnitude(party_counts) ==
    Vec([c \in 1..Shape1(party_counts) |-> 1 + ColSums(party_counts)[c]])

get_token_user_counts(party_counts) ==
    Vec([c \in 1..Shape1(party_counts) |-> 1 + UsersOf(party_counts, c)])

\* NotT with the smoothing of one pseudo-count only
NotT_plus_one(no, party_t) == Vec([c \in 1..Len(party_t) |-> no - party_t[c] + 1])

\* no - party_t + 2
NotT(no, party_t) == Vec([c \in 1..Len(party_t) |-> no - party_t[c] + 2])

\* sp.find(party_counts[i, :])[1]: the columns (1-based) row i uses
excl_user_terms(party_counts, i) ==
    {c \in 1..party_counts.cols : party_counts.rows[i + 1][c] # 0}

\* leaveout_t taking off row i's count of the term instead of 1
leaveout_t_by_count(party_counts, party_t, i) ==
    Vec([c \in 1..Len(party_t) |-> party_t[c] - party_counts.rows[i + 1][c]])

\* party_t.copy() with 1 taken off at every term of row i
leaveout_t(party_counts, party_t, i) ==
    Vec([c \in 1..Len(party_t) |->
            IF c \in excl_user_terms(party_counts, i) THEN party_t[c] - 1 ELSE party_t[c]])

chi_square(dem_t, rep_t, dem_not_t, rep_not_t, dem_no, rep_no) ==
    LET no_users == dem_no + rep_no
    IN Vec([c \in 1..Len(dem_t) |->
          LET all_t == dem_t[c] + rep_t[c]
              all_not_t == no_users - all_t + 4
              d == dem_t[c] * rep_not_t[c] - dem_not_t[c] * rep_t[c]
              chi_enum == no_users * d * d
              chi_denom == all_t * all_not_t * (dem_t[c] + dem_not_t[c])
                               * (rep_t[c] + rep_not_t[c])
          IN Frac(chi_enum, chi_denom)])

\* ---------------------------------------------------- row distributions
\* user_distr dividing by the total of the whole matrix instead of the row's
user_distr_by_total(counts) ==
    LET total == SumSeq(RowSums(counts))
    IN Vec([i \in 1..Len(counts.rows) |->
          Vec([c \in 1..counts.cols |->
                  IF counts.rows[i][c] = 0 THEN Num(0)
                  ELSE Frac(counts.rows[i][c], total)])])

\* (sp.diags(1 / user_total)).dot(counts): row i divided by its row sum; only
\* the nonzero counts are stored entries of the sparse product
user_distr(counts) ==
    LET user_total == RowSums(counts)
    IN Vec([i \in 1..Len(counts.rows) |->
          Vec([c \in 1..counts.cols |->
                  IF counts.rows[i][c] = 0 THEN Num(0)
                  ELSE Frac(counts.rows[i][c], user_total[i])])])

\* the assertion "make sure there are no zero rows"
NoZeroRows(counts) == NonzeroRows(counts) = 0..(Shape0(counts) - 1)

\* ------------------------------------------------ values with logarithms
\* mutual_information takes np.log2 of rationals.  The value
\*     r + SUM over the odd primes p of logs[p] * log2(p)
\* is kept exactly: log2(2) = 1 goes into r, and the log2 of the odd primes
\* are linearly independent over the rationals, so that two values are equal
\* iff their records are.  A non-finite r (inf, NaN) has all logs zero.
IsPrime(p) == p > 1 /\ \A k \in 2..(p - 1) : p % k # 0

\* the odd primes from k up to the largest number a log2 is taken of
RECURSIVE OddPrimesFrom(_)
OddPrimesFrom(k) ==
    IF k > 2 * MaxGroupDocs + 2 THEN <<>>
    ELSE (IF IsPrime(k) THEN <<k>> ELSE <<>>) \o OddPrimesFrom(k + 1)

\* <<3, 5, 7, ...>>; logs[k] is the coefficient of log2(OddPrimes[k])
OddPrimes == OddPrimesFrom(3)

RECURSIVE Exponent(_, _)
Exponent(n, p) == IF n % p = 0 THEN 1 + Exponent(n \div p, p) ELSE 0

NoLogs == Vec([k \in 1..Len(OddPrimes) |-> Num(0)])
LNum(q) == [r |-> q, logs |-> NoLogs]

LAdd(a, b) ==
    LET r == FAdd(a.r, b.r)
    IN [r |-> r,
        logs |-> IF IsFinite(r)
                 THEN Vec([k \in 1..Len(OddPrimes) |-> FAdd(a.logs[k], b.logs[k])])
                 ELSE NoLogs]

\* q * a for a finite float q
LScale(q, a) ==
    LET r == FMul(q, a.r)
    IN [r |-> r,
        logs |-> IF IsFinite(r)
                 THEN Vec([k \in 1..Len(OddPrimes) |-> FMul(q, a.logs[k])])
                 ELSE NoLogs]

\* np.log2(q): log2(0) = -inf, log2(inf) = inf, NaN for NaN and negatives
LLog2(q) ==
    IF IsNaN(q) \/ q[1] < 0 THEN LNum(NaN)
    ELSE IF IsInf(q) THEN LNum(Inf)
    ELSE IF q[1] = 0 THEN LNum(FNeg(Inf))
    ELSE [r |-> Num(Exponent(q[1], 2) - Exponent(q[2], 2)),
          logs |-> Vec([k \in 1..Len(OddPrimes) |->
                          Num(Exponent(q[1], OddPrimes[k]) - Exponent(q[2], OddPrimes[k]))])]

mutual_information(dem_t, rep_t, dem_not_t, rep_not_t, dem_no, rep_no) ==
    LET no_users == dem_no + rep_no
        \* x * np.log2(no_users * (x / (all * no)))
        mi(x, all, no) == LScale(Num(x), LLog2(FMul(Num(no_users), Frac(x, all * no))))
    IN Vec([c \in 1..Len(dem_t) |->
          LET all_t == dem_t[c] + rep_t[c]
              all_not_t == no_users - all_t + 4
              mi_dem_t == mi(dem_t[c], all_t, dem_no)
              mi_dem_not_t == mi(dem_not_t[c], all_not_t, dem_no)
              mi_rep_t == mi(rep_t[c], all_t, rep_no)
              mi_rep_not_t == mi(rep_not_t[c], all_not_t, rep_no)
          IN LScale(Frac(1, no_users),
                    LAdd(LAdd(mi_dem_t, mi_dem_not_t), LAdd(mi_rep_t, mi_rep_not_t)))])

\* ------------------------------------------------- calculate_polarization
\* the scores of 'mutual_information' are values with logarithms, the scores
\* of the other measures are floats
IsMI(measure) == measure = "mutual_information"
VZero(measure) == IF IsMI(measure) THEN LNum(Num(0)) ELSE Num(0)
VAdd(measure, a, b) == IF IsMI(measure) THEN LAdd(a, b) ELSE FAdd(a, b)
VScale(measure, q, a) == IF IsMI(measure) THEN LScale(q, a) ELSE FMul(q, a)

RECURSIVE VSum(_, _)
VSum(measure, s) ==
    IF s = <<>> THEN VZero(measure) ELSE VAdd(measure, Head(s), VSum(measure, Tail(s)))

\* RowDot as a dense product: every token's score is read
RowDot_dense(measure, counts, distr, i, token_scores) ==
    VSum(measure, Vec([c \in 1..counts.cols |->
                          VScale(measure, distr[i + 1][c], token_scores[c])]))

\* user_distr[i, :].dot(token_scores): a sparse row times a dense column adds
\* over the stored entries of the row only
RowDot(measure, counts, distr, i, token_scores) ==
    LET used == MaskPositions([c \in 1..counts.cols |-> counts.rows[i + 1][c] # 0], 1)
    IN VSum(measure, Vec([k \in 1..Len(used) |->
                             VScale(measure, distr[i + 1][used[k]],
                                    token_scores[used[k]])]))

ValidMeasures == {"posterior", "mutual_information", "chi_square"}

\* func = mutual_information if measure == 'mutual_information' else chi_square
func(measure, dem_t, rep_t, dem_not_t, rep_not_t, dem_no, rep_no) ==
    IF measure = "mutual_information"
    THEN mutual_information(dem_t, rep_t, dem_not_t, rep_not_t, dem_no, rep_no)
    ELSE chi_square(dem_t, rep_t, dem_not_t, rep_not_t, dem_no, rep_no)

\* the group-level vectors computed before the loops
party_stats(dem_counts, rep_counts) ==
    LET dem_no == Shape0(dem_counts)
        rep_no == Shape0(rep_counts)
        dem_t == get_token_user_counts(dem_counts)
        rep_t == get_token_user_counts(rep_counts)
    IN [dem_no |-> dem_no, rep_no |-> rep_no,
        dem_q |-> get_party_q(dem_counts, PyNone),
        rep_q |-> get_party_q(rep_counts, PyNone),
        dem_t |-> dem_t, rep_t |-> rep_t,
        dem_not_t |-> NotT(dem_no, dem_t), rep_not_t |-> NotT(rep_no, rep_t)]

\* the arguments of one call of func (mutual_information or chi_square)
\* without leave-out
plain_args(st) ==
    [dem_t |-> st.dem_t, rep_t |-> st.rep_t,
     dem_not_t |-> st.dem_not_t, rep_not_t |-> st.rep_not_t,
     dem_no |-> st.dem_no, rep_no |-> st.rep_no]

\* the arguments of the call of func in iteration i of the first leave-out loop
dem_leaveout_args(dem_counts, st, i) ==
    LET dem_leaveout_no == st.dem_no - 1
        dem_leaveout_t == leaveout_t(dem_counts, st.dem_t, i)
        dem_leaveout_not_t == NotT(dem_leaveout_no, dem_leaveout_t)
    IN [dem_t |-> dem_leaveout_t, rep_t |-> st.rep_t,
        dem_not_t |-> dem_leaveout_not_t, rep_not_t |-> st.rep_not_t,
        dem_no |-> dem_leaveout_no, rep_no |-> st.rep_no]

\* the arguments of the call of func in iteration i of the second leave-out loop
rep_leaveout_args(rep_counts, st, i) ==
    LET rep_leaveout_no == st.rep_no - 1
        rep_leaveout_t == leaveout_t(rep_counts, st.rep_t, i)
        rep_leaveout_not_t == NotT(rep_leaveout_no, rep_leaveout_t)
    IN [dem_t |-> st.dem_t, rep_t |-> rep_leaveout_t,
        dem_not_t |-> st.dem_not_t, rep_not_t |-> rep_leaveout_not_t,
        dem_no |-> st.dem_no, rep_no |-> rep_leaveout_no]

\* func(...) on a record of arguments
func_on(measure, a) ==
    func(measure, a.dem_t, a.rep_t, a.dem_not_t, a.rep_not_t, a.dem_no, a.rep_no)

\* token_scores_dem of iteration i of the first leave-out loop
token_scores_dem_leaveout(dem_counts, st, measure, i) ==
    IF measure = "posterior"
    THEN OneMinus(get_rho(get_party_q(dem_counts, i), st.rep_q))
    ELSE func_on(measure, dem_leaveout_args(dem_counts, st, i))

\* token_scores_rep_leaveout passing the full presence counts of group 2
\* (the decrement of the left-out document forgotten)
token_scores_rep_leaveout_full(rep_counts, st, measure, i) ==
    LET rep_leaveout_no == st.rep_no - 1
    IN IF measure = "posterior"
       THEN get_rho(st.dem_q, get_party_q(rep_counts, i))
       ELSE func(measure, st.dem_t, st.rep_t, st.dem_not_t,
                 NotT(rep_leaveout_no, st.rep_t), st.dem_no, rep_leaveout_no)

\* token_scores_rep of iteration i of the second leave-out loop
token_scores_rep_leaveout(rep_counts, st, measure, i) ==
    IF measure = "posterior"
    THEN get_rho(st.dem_q, get_party_q(rep_counts, i))
    ELSE func_on(measure, rep_leaveout_args(rep_counts, st, i))

\* the value of a call that gets past the assertions and the measure check
\* with at least one row in each matrix
polarization_value(dem_counts, rep_counts, measure, leaveout) ==
    LET st == party_stats(dem_counts, rep_counts)
        dem_user_distr == user_distr(dem_counts)
        rep_user_distr == user_distr(rep_counts)
        token_scores_rep == IF measure = "posterior" THEN get_rho(st.dem_q, st.rep_q)
                            ELSE func_on(measure, plain_args(st))
        token_scores_dem == IF measure = "posterior" THEN OneMinus(token_scores_rep)
                            ELSE token_scores_rep
        dem_addup == VSum(measure, Vec([k \in 1..st.dem_no |->
                        RowDot(measure, dem_counts, dem_user_distr, k - 1,
                               IF leaveout
                               THEN token_scores_dem_leaveout(dem_counts, st, measure, k - 1)
                               ELSE token_scores_dem)]))
        rep_addup == VSum(measure, Vec([k \in 1..st.rep_no |->
                        RowDot(measure, rep_counts, rep_user_distr, k - 1,
                               IF leaveout
                               THEN token_scores_rep_leaveout(rep_counts, st, measure, k - 1)
                               ELSE token_scores_rep)]))
        dem_val == VScale(measure, Frac(1, st.dem_no), dem_addup)
        rep_val == VScale(measure, Frac(1, st.rep_no), rep_addup)
    IN VScale(measure, Frac(1, 2), VAdd(measure, dem_val, rep_val))

\* the outcome of a call: a value, None, or an exception
NoValue == Num(0)

\* calculate_polarization raising for an invalid measure instead of returning
\* None
calculate_polarization_raising(dem_counts, rep_counts, measure, leaveout) ==
    IF ~(NoZeroRows(dem_counts) /\ NoZeroRows(rep_counts))
    THEN [kind |-> "raise", exc |-> "AssertionError", val |-> NoValue]
    ELSE IF measure \notin ValidMeasures
    THEN [kind |-> "raise", exc |-> "ValueError", val |-> NoValue]
    ELSE IF Shape0(dem_counts) = 0 \/ Shape0(rep_counts) = 0
    THEN [kind |-> "raise", exc |-> "ZeroDivisionError", val |-> NoValue]
    ELSE [kind |-> "value", exc |-> "",
          val |-> polarization_value(dem_counts, rep_counts, measure, leaveout)]

calculate_polarization(dem_counts, rep_counts, measure, leaveout) ==
    IF ~(NoZeroRows(dem_counts) /\ NoZeroRows(rep_counts))
    THEN [kind |-> "raise", exc |-> "AssertionError", val |-> NoValue]
    ELSE IF measure \notin ValidMeasures
    THEN [kind |-> "none", exc |-> "", val |-> NoValue]
    ELSE IF Shape0(dem_counts) = 0 \/ Shape0(rep_counts) = 0
    THEN [kind |-> "raise", exc |-> "ZeroDivisionError", val |-> NoValue]
    ELSE [kind |-> "value", exc |-> "",
          val |-> polarization_value(dem_counts, rep_counts, measure, leaveout)]

\* ------------------------------------------------------ random.Random
\* A generator is its state, a number below RngModulus.  The Mersenne Twister
\* is replaced by a linear congruential generator: like it, a deterministic
\* function of the state, which the seed sets.
rng_seed(a) == a % RngModulus
rng_next(state) == (5 * state + 3) % RngModulus

\* _randbelow(n): a number in 0..n-1 and the state after the draw
randbelow(state, n) ==
    LET s == rng_next(state) IN [val |-> (s * n) \div RngModulus, state |-> s]

\* random.sample(range(n), k), the pool branch of CPython:
\*   for i in range(k): j = randbelow(n - i); result[i] = pool[j];
\*                      pool[j] = pool[n - i - 1]
\* sample_loop drawing with replacement: the pool is not updated
RECURSIVE sample_loop_with_replacement(_, _, _, _, _)
sample_loop_with_replacement(state, pool, n, k, i) ==
    IF i >= k THEN [out |-> <<>>, state |-> state]
    ELSE LET d == randbelow(state, n - i)
             rest == sample_loop_with_replacement(d.state, pool, n, k, i + 1)
         IN [out |-> <<pool[d.val + 1]>> \o rest.out, state |-> rest.state]

RECURSIVE sample_loop(_, _, _, _, _)
sample_loop(state, pool, n, k, i) ==
    IF i >= k THEN [out |-> <<>>, state |-> state]
    ELSE LET d == randbelow(state, n - i)
             rest == sample_loop(d.state, [pool EXCEPT ![d.val + 1] = pool[n - i]],
                                 n, k, i + 1)
         IN [out |-> <<pool[d.val + 1]>> \o rest.out, state |-> rest.state]

rng_sample(state, n, k) == sample_loop(state, [j \in 1..n |-> j - 1], n, k, 0)

\* random.shuffle(x):
\*   for i in reversed(range(1, len(x))): j = randbelow(i + 1); swap x[i], x[j]
\* shuffle_loop that copies x[j] to x[i] without the swap
RECURSIVE shuffle_loop_overwrite(_, _, _)
shuffle_loop_overwrite(state, x, i) ==
    IF i < 1 THEN [out |-> x, state |-> state]
    ELSE LET d == randbelow(state, i + 1)
         IN shuffle_loop_overwrite(d.state, [x EXCEPT ![i + 1] = x[d.val + 1]], i - 1)

RECURSIVE shuffle_loop(_, _, _)
shuffle_loop(state, x, i) ==
    IF i < 1 THEN [out |-> x, state |-> state]
    ELSE LET d == randbelow(state, i + 1)
         IN shuffle_loop(d.state,
                         [x EXCEPT ![i + 1] = x[d.val + 1], ![d.val + 1] = x[i + 1]],
                         i - 1)

rng_shuffle(state, x) == shuffle_loop(state, x, Len(x) - 1)

\* a generator that continues the module-level one instead of being seeded
new_RNG_shared(global_state) == global_state

\* RNG = random.Random(); RNG.seed(42): a generator of the invocation's own.
\* global_state is the state of the module-level generator, which is not read.
new_RNG(global_state) == rng_seed(Seed)

\* ----------------------------------------------------- get_leaveout_score
MaxBalanceDocs == 4

\* a Python value: a float (or a value with logarithms) or None
PyFloat(q) == [kind |-> "value", val |-> q]
PyResult(out) == [kind |-> out.kind, val |-> out.val]

EmptyMatrix == [cols |-> 0, rows |-> <<>>]

\* not_enough_data with "<=" for "<": a group of exactly min_docs documents
\* would trigger the fallback
not_enough_data_le(dem_user_len, rep_user_len, min_docs) ==
    dem_user_len <= min_docs \/ rep_user_len <= min_docs

\* "return these values when there is not enough data to make predictions on"
not_enough_data(dem_user_len, rep_user_len, min_docs) ==
    dem_user_len < min_docs \/ rep_user_len < min_docs

\* if max_docs < user_len: counts = counts[:user_len]
truncate(counts, user_len, max_docs) ==
    IF max_docs < user_len THEN RowsUpTo(counts, user_len) ELSE counts

\* "make the prior neutral": the larger group becomes RNG.sample of its rows
balance(rng, dem_counts, rep_counts) ==
    LET dem_user_len == Shape0(dem_counts)
        rep_user_len == Shape0(rep_counts)
    IN IF dem_user_len > rep_user_len
       THEN LET dem_subset == rng_sample(rng, dem_user_len, rep_user_len)
            IN [dem |-> RowSelect(dem_counts, dem_subset.out), rep |-> rep_counts,
                drawn |-> TRUE, rng |-> dem_subset.state, subset |-> dem_subset.out]
       ELSE IF rep_user_len > dem_user_len
       THEN LET rep_subset == rng_sample(rng, rep_user_len, dem_user_len)
            IN [dem |-> dem_counts, rep |-> RowSelect(rep_counts, rep_subset.out),
                drawn |-> TRUE, rng |-> rep_subset.state, subset |-> rep_subset.out]
       ELSE [dem |-> dem_counts, rep |-> rep_counts, drawn |-> FALSE, rng |-> rng,
             subset |-> <<>>]

\* filter_words keeping every word that is used at all
filter_words_used(all_counts) ==
    ColMask(all_counts, [c \in 1..all_counts.cols |-> UsersOf(all_counts, c) > 0])

\* "filter words used by fewer than 2 people"
filter_words(all_counts) ==
    ColMask(all_counts, [c \in 1..all_counts.cols |-> UsersOf(all_counts, c) > 1])

\* filter_users keeping every document
filter_users_none(counts) == counts

\* "filter users who did not use words from vocab"
filter_users(counts) ==
    RowMask(counts, [k \in 1..Shape0(counts) |-> (k - 1) \in NonzeroRows(counts)])

\* the record of one call of calculate_polarization
PolCall(dem_counts, rep_counts, measure, leaveout) ==
    [dem |-> dem_counts, rep |-> rep_counts,
     out |-> calculate_polarization(dem_counts, rep_counts, measure, leaveout)]

\* The body of get_leaveout_score is a sequence of steps on its local
\* variables L.  L also keeps what a step did (the matrices entering the
\* balancing step, the balanced matrices, the calls of calculate_polarization)
\* and how the invocation ended: L.status is "running", "returned" or "raised".

\* dem_counts = get_news_token_counts(corpus1, id2word) ... rep_user_len = ...
step_counts(call_args) ==
    LET inputs == call_args.inputs
        dem_counts == get_news_token_counts(inputs.corpus1, inputs.id2word)
        rep_counts == get_news_token_counts(inputs.corpus2, inputs.id2word)
    IN [inputs |-> inputs, global_seen |-> call_args.global_state,
        path |-> "estimate", status |-> "running",
        dem_counts |-> dem_counts, rep_counts |-> rep_counts,
        dem_user_len |-> Shape0(dem_counts), rep_user_len |-> Shape0(rep_counts),
        RNG |-> 0, drawn |-> FALSE,
        trunc1 |-> EmptyMatrix, trunc2 |-> EmptyMatrix,
        bal1 |-> EmptyMatrix, bal2 |-> EmptyMatrix,
        all_counts |-> EmptyMatrix, calls |-> <<>>, ret |-> <<>>]

\* if dem_user_len < min_docs or rep_user_len < min_docs: return ...
step_guard(L) ==
    IF not_enough_data(L.dem_user_len, L.rep_user_len, L.inputs.min_docs)
    THEN [L EXCEPT !.path = "fallback", !.status = "returned",
                   !.ret = <<PyFloat(L.inputs.default_score),
                             PyFloat(L.inputs.default_score),
                             L.dem_user_len + L.rep_user_len>>]
    ELSE L

\* the two "if max_docs < ..." statements
step_truncate(L) ==
    IF L.status # "running" THEN L
    ELSE LET dem_counts == truncate(L.dem_counts, L.dem_user_len, L.inputs.max_docs)
             rep_counts == truncate(L.rep_counts, L.rep_user_len, L.inputs.max_docs)
         IN [L EXCEPT !.dem_counts = dem_counts, !.rep_counts = rep_counts,
                      !.trunc1 = dem_counts, !.trunc2 = rep_counts]

\* RNG = random.Random(); RNG.seed(42); balancing; the assertion after it
step_balance(L) ==
    IF L.status # "running" THEN L
    ELSE LET bal == balance(new_RNG(L.global_seen), L.dem_counts, L.rep_counts)
         IN [L EXCEPT !.dem_counts = bal.dem, !.rep_counts = bal.rep,
                      !.bal1 = bal.dem, !.bal2 = bal.rep,
                      !.dem_user_len = Shape0(bal.dem),
                      !.rep_user_len = Shape0(bal.rep),
                      !.RNG = bal.rng, !.drawn = bal.drawn,
                      !.status = IF Shape0(bal.dem) = Shape0(bal.rep)
                                 THEN "running" ELSE "raised"]

\* all_counts = sp.vstack(...); the word filter; the split at dem_user_len
step_filter_words(L) ==
    IF L.status # "running" THEN L
    ELSE LET all_counts == filter_words(VStack(L.dem_counts, L.rep_counts))
         IN [L EXCEPT !.dem_counts = RowsUpTo(all_counts, L.dem_user_len),
                      !.rep_counts = RowsFrom(all_counts, L.dem_user_len)]

\* the two "filter users who did not use words from vocab" statements
step_filter_users(L) ==
    IF L.status # "running" THEN L
    ELSE [L EXCEPT !.dem_counts = filter_users(L.dem_counts),
                   !.rep_counts = filter_users(L.rep_counts)]

\* actual_val = calculate_polarization(dem_counts, rep_counts, ...)
step_actual(L) ==
    IF L.status # "running" THEN L
    ELSE LET actual == PolCall(L.dem_counts, L.rep_counts,
                               L.inputs.measure, L.inputs.leaveout)
         IN [L EXCEPT !.calls = <<actual>>,
                      !.status = IF actual.out.kind = "raise"
                                 THEN "raised" ELSE "running"]

\* all_counts = sp.vstack(...); RNG.shuffle(index); all_counts[index, :]
step_shuffle(L) ==
    IF L.status # "running" THEN L
    ELSE LET all_counts == VStack(L.dem_counts, L.rep_counts)
             index == rng_shuffle(L.RNG, [k \in 1..Shape0(all_counts) |-> k - 1])
         IN [L EXCEPT !.all_counts = RowSelect(all_counts, index.out),
                      !.RNG = index.state]

\* random_val = calculate_polarization(all_counts[:dem_user_len, :],
\*                                     all_counts[dem_user_len:, :], ...)
step_random(L) ==
    IF L.status # "running" THEN L
    ELSE LET random == PolCall(RowsUpTo(L.all_counts, L.dem_user_len),
                               RowsFrom(L.all_counts, L.dem_user_len),
                               L.inputs.measure, L.inputs.leaveout)
         IN [L EXCEPT !.calls = Append(L.calls, random),
                      !.status = IF random.out.kind = "raise"
                                 THEN "raised" ELSE "running"]

\* return actual_val, random_val, dem_user_len + rep_user_len
step_return(L) ==
    IF L.status # "running" THEN L
    ELSE [L EXCEPT !.status = "returned",
                   !.ret = <<PyResult(L.calls[1].out), PyResult(L.calls[2].out),
                             L.dem_user_len + L.rep_user_len>>]

\* One invocation: the local variables when it ends.  Then(L, step) is the
\* statement `step` executed on the local variables L.
get_leaveout_score(corpus1, corpus2, id2word, measure, leaveout, default_score, min_docs, max_docs, global_state) ==
    LET inputs == [corpus1 |-> corpus1, corpus2 |-> corpus2, id2word |-> id2word,
                   measure |-> measure, leaveout |-> leaveout,
                   default_score |-> default_score,
                   min_docs |-> min_docs, max_docs |-> max_docs]
        Then(L, step(_)) == step(L)
    IN Then(Then(Then(Then(Then(Then(Then(Then(Then(Then(
           [inputs |-> inputs, global_state |-> global_state], step_counts),
           step_guard), step_truncate), step_balance), step_filter_words),
           step_filter_users), step_actual), step_shuffle), step_random), step_return)

\* ---------------------------------------------------------- state machine
VARIABLES
    corpus1,        \* the bag-of-words corpus of group 1 of the current comparison
    corpus2,        \* the bag-of-words corpus of group 2
    run,            \* the last invocation of get_leaveout_score on these corpora
    prev,           \* the invocation before it on the same inputs
    call,           \* the last direct call of calculate_polarization
    globalRandom,   \* the state of the module-level generator of `random`
    globalDraws,    \* how often other code has drawn from it
    balancing,      \* the balancing step applied to two groups on its own
    trainer         \* ModelTrainer._training_loop: its local variables and
                    \* the checkpoint at model_save_path

vars == <<corpus1, corpus2, run, prev, call, globalRandom, globalDraws, balancing,
          trainer>>

NoRun == [path |-> "none"]
NoCall == [measure |-> "none"]
NoBalancing == [done |-> FALSE]
NoTrainer == [status |-> "none"]

Measures == ValidMeasures \cup {"cosine"}
DefaultScores == {Frac(1, 2)}

Init ==
    /\ corpus1 = <<>>
    /\ corpus2 = <<>>
    /\ run = NoRun
    /\ prev = NoRun
    /\ call = NoCall
    /\ globalRandom = 0
    /\ globalDraws = 0
    /\ balancing = NoBalancing
    /\ trainer = NoTrainer

\* the corpus builder hands over one more document of group 1
AddDoc1(doc) ==
    /\ Len(corpus1) < MaxGroupDocs
    /\ corpus1' = Append(corpus1, doc)
    /\ run' = NoRun
    /\ prev' = NoRun
    /\ call' = NoCall
    /\ UNCHANGED <<corpus2, globalRandom, globalDraws, balancing, trainer>>

AddDoc2(doc) ==
    /\ Len(corpus2) < MaxGroupDocs
    /\ corpus2' = Append(corpus2, doc)
    /\ run' = NoRun
    /\ prev' = NoRun
    /\ call' = NoCall
    /\ UNCHANGED <<corpus1, globalRandom, globalDraws, balancing, trainer>>

\* get_leaveout_score(corpus1, corpus2, id2word, ...); again: the same
\* invocation a second time
Invoke(again, measure, leaveout, default_score, min_docs, max_docs) ==
    /\ call = NoCall
    /\ prev = NoRun
    /\ IF again
       THEN /\ run # NoRun
            /\ measure = run.inputs.measure
            /\ leaveout = run.inputs.leaveout
            /\ default_score = run.inputs.default_score
            /\ min_docs = run.inputs.min_docs
            /\ max_docs = run.inputs.max_docs
       ELSE run = NoRun
    /\ run' = get_leaveout_score(corpus1, corpus2, NumTokens, measure, leaveout,
                                 default_score, min_docs, max_docs, globalRandom)
    /\ prev' = run
    /\ UNCHANGED <<corpus1, corpus2, call, globalRandom, globalDraws, balancing, trainer>>

\* other code draws from the module-level generator between two invocations
GlobalDraw ==
    /\ run # NoRun
    /\ prev = NoRun
    /\ globalDraws < MaxGlobalDraws
    /\ globalRandom' = rng_next(globalRandom)
    /\ globalDraws' = globalDraws + 1
    /\ UNCHANGED <<corpus1, corpus2, run, prev, call, balancing, trainer>>

\* what the leave-out loops of a call use in their iterations: iteration i's
\* distribution of the group without document i ('posterior') or its presence
\* counts without document i (the other measures)
leaveout_trace(dem_counts, rep_counts, measure, st) ==
    [dem_q |-> IF measure = "posterior"
               THEN Vec([k \in 1..st.dem_no |-> get_party_q(dem_counts, k - 1)])
               ELSE <<>>,
     rep_q |-> IF measure = "posterior"
               THEN Vec([k \in 1..st.rep_no |-> get_party_q(rep_counts, k - 1)])
               ELSE <<>>,
     dem_t |-> IF measure # "posterior"
               THEN Vec([k \in 1..st.dem_no |-> leaveout_t(dem_counts, st.dem_t, k - 1)])
               ELSE <<>>,
     rep_t |-> IF measure # "posterior"
               THEN Vec([k \in 1..st.rep_no |-> leaveout_t(rep_counts, st.rep_t, k - 1)])
               ELSE <<>>]

\* The objects that the names of calculate_polarization are bound to; the
\* temporaries of an iteration (leaveout_q, leaveout_t, leaveout_not_t) are
\* new objects in every iteration.
initial_store(dem_counts, rep_counts, st) ==
    [dem_counts |-> dem_counts, rep_counts |-> rep_counts,
     dem_q |-> st.dem_q, rep_q |-> st.rep_q, dem_t |-> st.dem_t, rep_t |-> st.rep_t,
     dem_not_t |-> st.dem_not_t, rep_not_t |-> st.rep_not_t,
     leaveout_q |-> <<>>, leaveout_t |-> <<>>, leaveout_not_t |-> <<>>]

\* an assignment without the copy: the name is bound to the array itself
ndarray_copy_alias(name) == name

\* party_t.copy(): the object the result is bound to, a new array
ndarray_copy(name) == "leaveout_t"

\* one iteration of a leave-out loop on the objects S: group "dem" is the
\* first loop, group "rep" the second; i is the document left out
leaveout_iteration(S, measure, group, i) ==
    LET party_counts == IF group = "dem" THEN S.dem_counts ELSE S.rep_counts
        party_t == IF group = "dem" THEN "dem_t" ELSE "rep_t"
    IN IF measure = "posterior"
       THEN [S EXCEPT !.leaveout_q = get_party_q(party_counts, i)]
       ELSE LET target == ndarray_copy(party_t)
                S1 == [S EXCEPT ![target] = leaveout_t(party_counts, S[party_t], i)]
            IN [S1 EXCEPT !.leaveout_t = S1[target],
                          !.leaveout_not_t = NotT(Shape0(party_counts) - 1, S1[target])]

\* the objects after n iterations of the two loops together
RECURSIVE store_after(_, _, _)
store_after(S0, measure, n) ==
    IF n = 0 THEN S0
    ELSE LET dem_no == Shape0(S0.dem_counts)
             S == store_after(S0, measure, n - 1)
         IN IF n <= dem_no
            THEN leaveout_iteration(S, measure, "dem", n - 1)
            ELSE leaveout_iteration(S, measure, "rep", n - dem_no - 1)

\* the objects before the first iteration and after every iteration
loop_stores(dem_counts, rep_counts, measure, leaveout, st) ==
    LET S0 == initial_store(dem_counts, rep_counts, st)
        n == IF leaveout THEN st.dem_no + st.rep_no ELSE 0
    IN Vec([k \in 1..(n + 1) |-> store_after(S0, measure, k - 1)])

\* the arguments of every call of func made by a call that returns a value
scorer_calls(dem_counts, rep_counts, measure, leaveout, st) ==
    IF measure = "posterior" THEN <<>>
    ELSE IF ~leaveout THEN <<plain_args(st)>>
    ELSE Vec([k \in 1..st.dem_no |-> dem_leaveout_args(dem_counts, st, k - 1)])
         \o Vec([k \in 1..st.rep_no |-> rep_leaveout_args(rep_counts, st, k - 1)])

NoTrace == [dem_q |-> <<>>, rep_q |-> <<>>, dem_t |-> <<>>, rep_t |-> <<>>]

\* calculate_polarization(dem_counts, rep_counts, measure, leaveout) on the
\* count matrices of the two corpora as they are (empty documents included)
CallPolarization(measure, leaveout) ==
    /\ call = NoCall
    /\ run = NoRun
    /\ LET dem_counts == get_news_token_counts(corpus1, NumTokens)
           rep_counts == get_news_token_counts(corpus2, NumTokens)
           out == calculate_polarization(dem_counts, rep_counts, measure, leaveout)
           st == party_stats(dem_counts, rep_counts)
       IN call' = [measure |-> measure, leaveout |-> leaveout,
                   dem |-> dem_counts, rep |-> rep_counts, out |-> out, st |-> st,
                   dem_user_distr |-> user_distr(dem_counts),
                   rep_user_distr |-> user_distr(rep_counts),
                   scorer |-> IF out.kind = "value"
                              THEN scorer_calls(dem_counts, rep_counts, measure,
                                                leaveout, st)
                              ELSE <<>>,
                   stores |-> IF out.kind = "value"
                              THEN loop_stores(dem_counts, rep_counts, measure,
                                               leaveout, st)
                              ELSE <<>>,
                   loop |-> IF out.kind = "value" /\ leaveout
                            THEN leaveout_trace(dem_counts, rep_counts, measure, st)
                            ELSE NoTrace]
    /\ UNCHANGED <<corpus1, corpus2, run, prev, globalRandom, globalDraws, balancing, trainer>>

\* the pipeline on every configuration
Next ==
    \/ \E doc \in Docs : AddDoc1(doc)
    \/ \E doc \in Docs : AddDoc2(doc)
    \/ \E measure \in Measures, leaveout \in BOOLEAN, default_score \in DefaultScores,
          min_docs \in 1..MaxDocsArg, max_docs \in 1..MaxDocsArg :
          Invoke(FALSE, measure, leaveout, default_score, min_docs, max_docs)

Spec == Init /\ [][Next]_vars

\* the pipeline invoked twice on the same inputs (min_docs = 1, so that the
\* estimator runs whenever both groups have a document)
NextRepro ==
    \/ \E doc \in Docs : AddDoc1(doc)
    \/ \E doc \in Docs : AddDoc2(doc)
    \/ \E again \in BOOLEAN, measure \in Measures, leaveout \in BOOLEAN,
          default_score \in DefaultScores :
          Invoke(again, measure, leaveout, default_score, 1, MaxDocsArg)
    \/ GlobalDraw

SpecRepro == Init /\ [][NextRepro]_vars

\* calculate_polarization called directly
NextPol ==
    \/ \E doc \in Docs : AddDoc1(doc)
    \/ \E doc \in Docs : AddDoc2(doc)
    \/ \E measure \in Measures, leaveout \in BOOLEAN : CallPolarization(measure, leaveout)

SpecPol == Init /\ [][NextPol]_vars

\* documents of one token each, for the groups handed to the balancing step
BalanceDocs == {<<<<c, 1>>>> : c \in 0..(NumTokens - 1)}

\* groups of 1..MaxBalanceDocs documents: the guard before the balancing
\* step lets no group without documents through when min_docs >= 1
BalanceCorpora == UNION {[1..n -> BalanceDocs] : n \in 1..MaxBalanceDocs}

InitBalance ==
    /\ corpus1 \in BalanceCorpora
    /\ corpus2 \in BalanceCorpora
    /\ run = NoRun
    /\ prev = NoRun
    /\ call = NoCall
    /\ globalRandom \in 0..(RngModulus - 1)
    /\ globalDraws = 0
    /\ balancing = NoBalancing
    /\ trainer = NoTrainer

\* RNG = random.Random(); RNG.seed(42) and the balancing step on the count
\* matrices of the two groups
Balance ==
    /\ ~balancing.done
    /\ LET dem_counts == get_news_token_counts(corpus1, NumTokens)
           rep_counts == get_news_token_counts(corpus2, NumTokens)
           RNG == new_RNG(globalRandom)
       IN balancing' = [done |-> TRUE, dem_counts |-> dem_counts,
                        rep_counts |-> rep_counts, RNG |-> RNG,
                        out |-> balance(RNG, dem_counts, rep_counts)]
    /\ UNCHANGED <<corpus1, corpus2, run, prev, call, globalRandom, globalDraws,
                   trainer>>

NextBalance == Balance

SpecBalance == InitBalance /\ [][NextBalance]_vars

\* ---------------------------------------- ModelTrainer._training_loop
MaxMetric == 2
MaxBatches == 2
MaxEpochs == 2
MaxEvalSteps == 2
MaxGradAccumSteps == 2

\* a < b on floats
FLess(a, b) == ~IsNaN(a) /\ ~IsNaN(b) /\ a[1] * b[2] < b[1] * a[2]

Tasks == {"stance-classification", "argument-classification", "topic-extraction"}

chosen_metric(task) ==
    IF task \in {"stance-classification", "argument-classification"}
    THEN "f1_macro" ELSE "bertscore_f1"

\* the values a metric takes: 0, 1/MaxMetric, ..., 1
MetricValues == {Frac(k, MaxMetric) : k \in 0..MaxMetric}

\* the dictionary returned by _validation_step
MetricDicts == [f1_macro : MetricValues, bertscore_f1 : MetricValues]

NoCheckpoint == [written |-> FALSE]

\* "if metrics[chosen_metric] < best_eval_metric"
is_new_best(metric, best_eval_metric) == FLess(metric, best_eval_metric)

\* _training_loop up to its first batch: best_eval_metric = float('inf'),
\* the assertion "Not enough steps to evaluate", global_step = 0
StartTraining(task, num_epochs, eval_steps, grad_accum_steps, train_loader_len) ==
    /\ trainer = NoTrainer
    /\ corpus1 = <<>> /\ corpus2 = <<>>
    /\ trainer' = [status |-> IF train_loader_len >= eval_steps * grad_accum_steps
                              THEN "training" ELSE "raised",
                   task |-> task, num_epochs |-> num_epochs,
                   eval_steps |-> eval_steps, grad_accum_steps |-> grad_accum_steps,
                   train_loader_len |-> train_loader_len,
                   epoch |-> 0, step |-> 0, global_step |-> 0,
                   best_eval_metric |-> Inf,
                   checkpoint |-> NoCheckpoint, evals |-> <<>>]
    /\ UNCHANGED <<corpus1, corpus2, run, prev, call, globalRandom, globalDraws,
                   balancing>>

\* one batch of the inner loop: the optimizer step when the gradients of
\* grad_accum_steps batches are accumulated, the evaluation every eval_steps
\* optimizer steps (metrics is what _validation_step returns then), "Save
\* best model"; after the last batch of the last epoch the loop ends.  A
\* model state is named by the global_step after which it exists.
TrainBatch(metrics) ==
    /\ trainer.status = "training"
    /\ LET accumulated == (trainer.step + 1) % trainer.grad_accum_steps = 0
           global_step == IF accumulated THEN trainer.global_step + 1
                          ELSE trainer.global_step
           evaluate == accumulated /\ global_step % trainer.eval_steps = 0
           metric == metrics[chosen_metric(trainer.task)]
           save == evaluate /\ is_new_best(metric, trainer.best_eval_metric)
           last == trainer.step + 1 = trainer.train_loader_len
           epoch == IF last THEN trainer.epoch + 1 ELSE trainer.epoch
       IN trainer' = [trainer EXCEPT
                         !.step = IF last THEN 0 ELSE @ + 1,
                         !.epoch = epoch,
                         !.global_step = global_step,
                         !.best_eval_metric = IF save THEN metric ELSE @,
                         !.checkpoint = IF save
                                        THEN [written |-> TRUE,
                                              global_step |-> global_step]
                                        ELSE @,
                         !.evals = IF evaluate
                                   THEN Append(@, [global_step |-> global_step,
                                                   metrics |-> metrics])
                                   ELSE @,
                         !.status = IF epoch = trainer.num_epochs
                                    THEN "done" ELSE "training"]
    /\ UNCHANGED <<corpus1, corpus2, run, prev, call, globalRandom, globalDraws,
                   balancing>>

NextTrain ==
    \/ \E task \in Tasks, num_epochs \in 1..MaxEpochs, eval_steps \in 1..MaxEvalSteps,
          grad_accum_steps \in 1..MaxGradAccumSteps, train_loader_len \in 1..MaxBatches :
          StartTraining(task, num_epochs, eval_steps, grad_accum_steps, train_loader_len)
    \/ \E metrics \in MetricDicts : TrainBatch(metrics)

SpecTrain == Init /\ [][NextTrain]_vars

\* ------------------------------------------------------------------ claims
\* the tuple of the fallback: (default_score, default_score, n1 + n2)
FallbackTuple ==
    <<PyFloat(run.inputs.default_score), PyFloat(run.inputs.default_score),
      Len(corpus1) + Len(corpus2)>>

TooFewDocs == Len(corpus1) < run.inputs.min_docs \/ Len(corpus2) < run.inputs.min_docs

\* C1 (as amended): get_leaveout_score takes its fallback return if and only
\* if a corpus has strictly fewer than min_docs documents.  The fallback
\* returns exactly (default_score, default_score, n1 + n2) with n1, n2 the raw
\* document counts and calculate_polarization is never called; when both
\* groups have at least min_docs documents (exactly min_docs included) the
\* estimator is called.  The returned tuple alone does not tell the two
\* paths apart.
C1_FallbackIffTooFewDocs ==
    run # NoRun =>
        /\ (run.path = "fallback") <=> TooFewDocs
        /\ run.path = "fallback" =>
              /\ run.status = "returned"
              /\ run.ret = FallbackTuple
              /\ run.calls = <<>>
        /\ (Len(corpus1) >= run.inputs.min_docs /\ Len(corpus2) >= run.inputs.min_docs)
              => run.path = "estimate" /\ Len(run.calls) >= 1

\* C1 witness: the fallback was taken although one group has exactly min_docs
\* documents (the other has fewer, and is not empty)
C1_Witness ==
    /\ run # NoRun
    /\ run.path = "fallback"
    /\ Len(corpus1) = run.inputs.min_docs
    /\ Len(corpus2) < run.inputs.min_docs
    /\ Len(corpus2) >= 1

\* C1 as stated: the returned tuple is exactly (default_score, default_score,
\* n1 + n2) if and only if a corpus has fewer than min_docs documents.  (A
\* mutual_information result is a value with logarithms, never the default
\* float: the comparison is made for the other measures.)
C1_ReturnsDefaultIffTooFewDocs ==
    (run # NoRun /\ run.status = "returned" /\ ~IsMI(run.inputs.measure)) =>
        ((run.ret = FallbackTuple) <=> TooFewDocs)

EstimatorRan == run # NoRun /\ run.path = "estimate" /\ Len(run.calls) >= 1

\* C2: in every non-fallback run the two matrices passed to
\* calculate_polarization for the actual score have the same number of rows.
C2_ActualCallEqualRows ==
    EstimatorRan => Shape0(run.calls[1].dem) = Shape0(run.calls[1].rep)

IsPrefixOf(m, corpus) ==
    /\ Shape0(m) <= Len(corpus)
    /\ m.rows = SubSeq(get_news_token_counts(corpus, NumTokens).rows, 1, Shape0(m))

\* C3: every group entering the balancing step has at most max_docs rows and
\* is a prefix of its input corpus.
C3_TruncatedToMaxDocs ==
    (run # NoRun /\ run.path = "estimate") =>
        /\ Shape0(run.trunc1) <= run.inputs.max_docs
        /\ Shape0(run.trunc2) <= run.inputs.max_docs
        /\ IsPrefixOf(run.trunc1, corpus1)
        /\ IsPrefixOf(run.trunc2, corpus2)

PosteriorLeaveoutCall ==
    /\ call # NoCall
    /\ call.measure = "posterior"
    /\ call.leaveout
    /\ call.out.kind = "value"

\* C4: with measure 'posterior' and leaveout, for every document i of a
\* group, i = 0 included, the group's distribution used to score document i
\* is the distribution of the group's matrix with row i removed.
C4_LeaveoutDistributionForEveryRow ==
    PosteriorLeaveoutCall =>
        /\ \A i \in 0..(Shape0(call.dem) - 1) :
              call.loop.dem_q[i + 1] = get_party_q(RemoveRow(call.dem, i), PyNone)
        /\ \A i \in 0..(Shape0(call.rep) - 1) :
              call.loop.rep_q[i + 1] = get_party_q(RemoveRow(call.rep, i), PyNone)

\* a call with an invalid measure on two matrices that have rows
InvalidMeasureCall ==
    /\ call # NoCall
    /\ call.measure \notin ValidMeasures
    /\ Shape0(call.dem) > 0
    /\ Shape0(call.rep) > 0

C6_PipelineCallsHaveNoZeroRows ==
    run # NoRun =>
        \A k \in 1..Len(run.calls) :
            /\ NoZeroRows(run.calls[k].dem)
            /\ NoZeroRows(run.calls[k].rep)
            /\ run.calls[k].out.exc # "AssertionError"

\* C6 witness: both calls were made after the user filter dropped a document
\* that the word filter had emptied
C6_Witness ==
    /\ run # NoRun
    /\ run.status = "returned"
    /\ Len(run.calls) = 2
    /\ run.calls[1].out.kind = "value"
    /\ run.calls[2].out.kind = "value"
    /\ Shape0(run.calls[1].dem) < Shape0(run.bal1)

\* C7: two invocations of get_leaveout_score with the same corpora, vocabulary
\* and configuration end the same way and return identical (actual, random,
\* count), whatever the state of the module-level generator at either one.
C7_SameInputsSameResult ==
    (run # NoRun /\ prev # NoRun /\ run.inputs = prev.inputs) =>
        /\ run.status = prev.status
        /\ run.ret = prev.ret
        /\ run.calls = prev.calls

\* C7 witness: the second invocation saw another state of the module-level
\* generator than the first, drew a sample to balance the groups and shuffled
\* for the null baseline
C7_Witness ==
    /\ run # NoRun /\ prev # NoRun
    /\ run.inputs = prev.inputs
    /\ run.global_seen # prev.global_seen
    /\ run.drawn
    /\ run.status = "returned"
    /\ Len(run.calls) = 2
    /\ run.calls[1].out.kind = "value"
    /\ run.calls[2].out.kind = "value"

\* C8: the null baseline is computed on two parts of the shuffled matrix whose
\* row counts equal those of the two groups used for the actual score.
C8_NullSplitSizesAsActual ==
    (run # NoRun /\ Len(run.calls) = 2) =>
        /\ Shape0(run.calls[2].dem) = Shape0(run.calls[1].dem)
        /\ Shape0(run.calls[2].rep) = Shape0(run.calls[1].rep)

\* C9: on the non-fallback path the third component returned equals the total
\* row count of the two matrices passed to calculate_polarization for the
\* actual score.
C9_CountIsRowsUsed ==
    (run # NoRun /\ run.path = "estimate" /\ run.status = "returned") =>
        run.ret[3] = Shape0(run.calls[1].dem) + Shape0(run.calls[1].rep)

PresenceLeaveoutCall ==
    /\ call # NoCall
    /\ call.measure \in {"mutual_information", "chi_square"}
    /\ call.leaveout
    /\ call.out.kind = "value"

\* C10: in the leave-out loops of mutual_information and chi_square, for
\* every row i of a group the decremented presence vector equals
\* get_token_user_counts of the group's matrix with row i removed.
C10_DecrementedPresenceIsRecount ==
    PresenceLeaveoutCall =>
        /\ \A i \in 0..(Shape0(call.dem) - 1) :
              call.loop.dem_t[i + 1] = get_token_user_counts(RemoveRow(call.dem, i))
        /\ \A i \in 0..(Shape0(call.rep) - 1) :
              call.loop.rep_t[i + 1] = get_token_user_counts(RemoveRow(call.rep, i))

\* C10 witness: a leave-out call on a group of two documents, one of which
\* holds a token more than once
C10_Witness ==
    /\ PresenceLeaveoutCall
    /\ Shape0(call.dem) = 2
    /\ \E i \in 1..2, c \in 1..NumTokens : call.dem.rows[i][c] >= 2

\* a call with one of the two presence measures that returned a value
PresenceCall ==
    /\ call # NoCall
    /\ call.measure \in {"mutual_information", "chi_square"}
    /\ call.out.kind = "value"

\* C11: for 'mutual_information' and 'chi_square', with or without leave-out,
\* calculate_polarization(A, B) equals calculate_polarization(B, A) on all
\* matrices without zero rows (the arithmetic is exact: rounding is not
\* modelled).
C11_SwapGroupsSameValue ==
    PresenceCall =>
        calculate_polarization(call.rep, call.dem, call.measure, call.leaveout) = call.out

\* C11 witness: a leave-out call on two groups of different sizes and
\* different vocabularies
C11_Witness ==
    /\ PresenceCall
    /\ call.leaveout
    /\ Shape0(call.dem) = 1
    /\ Shape0(call.rep) = 2
    /\ get_token_user_counts(call.dem) # get_token_user_counts(call.rep)

\* a call with measure 'posterior' and without leave-out that returned a value
PosteriorPlainCall ==
    /\ call # NoCall
    /\ call.measure = "posterior"
    /\ ~call.leaveout
    /\ call.out.kind = "value"

\* token c (1-based) occurs in a document of m
UsedIn(m, c) == UsersOf(m, c) > 0

\* every token that occurs is used by documents of exactly one group
DisjointVocabularies(dem_counts, rep_counts) ==
    \A c \in 1..dem_counts.cols : ~(UsedIn(dem_counts, c) /\ UsedIn(rep_counts, c))

PairCounts(doc, t) ==
    SumSeq([k \in 1..Len(doc) |-> IF doc[k][1] = t THEN doc[k][2] ELSE 0])

\* m is the count matrix of corpus as claim C13 describes it
IsCountMatrixOf(m, corpus) ==
    /\ Shape0(m) = Len(corpus)
    /\ Shape1(m) = NumTokens
    /\ \A i \in 1..Len(corpus) :
          /\ Len(m.rows[i]) = NumTokens
          /\ \A t \in Tokens : m.rows[i][t + 1] = PairCounts(corpus[i], t)
          /\ SumSeq(m.rows[i]) = SumSeq([k \in 1..Len(corpus[i]) |-> corpus[i][k][2]])
          /\ corpus[i] = <<>> => \A t \in Tokens : m.rows[i][t + 1] = 0

\* C13: get_news_token_counts returns a matrix of shape (number of documents,
\* vocabulary size) whose entry [i, t] is the sum of the counts of the pairs
\* (t, count) of document i, duplicates added; the entries of a row sum to the
\* counts of its document and a document without pairs gives an all-zero row.
C13_CountMatrixSumsPairs ==
    call # NoCall =>
        /\ IsCountMatrixOf(call.dem, corpus1)
        /\ IsCountMatrixOf(call.rep, corpus2)

\* C13 witness: a corpus with a document that lists a token twice and a
\* document without pairs
C13_Witness ==
    /\ call # NoCall
    /\ \E i \in 1..Len(corpus1) :
          Len(corpus1[i]) = 2 /\ corpus1[i][1][1] = corpus1[i][2][1]
    /\ \E i \in 1..Len(corpus1) : corpus1[i] = <<>>

\* the tokens (1-based columns) of m that at least 2 documents of m use
TokensOfTwo(m) == {c \in 1..m.cols : Cardinality({i \in 1..Shape0(m) : m.rows[i][c] # 0}) >= 2}

\* the j-th smallest element of the set of numbers S
NthOf(S, j) == CHOOSE c \in S : Cardinality({d \in S : d < c}) = j - 1

\* row with the columns of S only, in their order
RowOn(row, S) == [j \in 1..Cardinality(S) |-> row[NthOf(S, j)]]

HasEntry(row) == \E c \in 1..Len(row) : row[c] # 0

\* the rows of m on the columns of S, the rows left without entry removed
RowsOn(m, S) == SelectSeq([i \in 1..Shape0(m) |-> RowOn(m.rows[i], S)], HasEntry)

\* C14: a token column is retained iff at least 2 documents of the combined
\* balanced matrix use it; the retained columns keep their order and their
\* counts; in the matrices passed to both calls of calculate_polarization
\* every retained token is still used by at least 2 documents of the two
\* matrices together.
C14_VocabularyFilterKeepsTokensOfTwo ==
    EstimatorRan =>
        LET kept == TokensOfTwo(VStack(run.bal1, run.bal2))
        IN /\ run.calls[1].dem.cols = Cardinality(kept)
           /\ run.calls[1].rep.cols = Cardinality(kept)
           /\ run.calls[1].dem.rows = RowsOn(run.bal1, kept)
           /\ run.calls[1].rep.rows = RowsOn(run.bal2, kept)
           /\ \A k \in 1..Len(run.calls) :
                 LET passed == VStack(run.calls[k].dem, run.calls[k].rep)
                 IN TokensOfTwo(passed) = 1..passed.cols

\* C14 witness: one token of the balanced matrix was retained and one dropped,
\* and both calls were made
C14_Witness ==
    /\ EstimatorRan
    /\ Len(run.calls) = 2
    /\ Cardinality(TokensOfTwo(VStack(run.bal1, run.bal2))) = 1
    /\ \E c \in 1..NumTokens :
          /\ c \notin TokensOfTwo(VStack(run.bal1, run.bal2))
          /\ UsersOf(VStack(run.bal1, run.bal2), c) = 1

\* distr is the row-normalisation of counts: non-negative entries,
\* entry [i, t] = count[i, t] / (sum of row i), every row summing to 1
IsRowNormalized(distr, counts) ==
    /\ Len(distr) = Shape0(counts)
    /\ \A i \in 1..Shape0(counts) :
          /\ Len(distr[i]) = counts.cols
          /\ \A c \in 1..counts.cols :
                /\ IsFinite(distr[i][c])
                /\ distr[i][c][1] >= 0
                /\ distr[i][c] = FDiv(Num(counts.rows[i][c]), Num(SumSeq(counts.rows[i])))
          /\ FSum(distr[i]) = Num(1)

\* C15: in calculate_polarization, for a matrix without all-zero rows, every
\* row of dem_user_distr / rep_user_distr has non-negative entries that sum
\* to 1, and entry [i, t] is count[i, t] divided by the sum of row i.
C15_RowsNormalized ==
    call # NoCall =>
        /\ NoZeroRows(call.dem) => IsRowNormalized(call.dem_user_distr, call.dem)
        /\ NoZeroRows(call.rep) => IsRowNormalized(call.rep_user_distr, call.rep)

\* C15 witness: a matrix without zero rows with a row of two tokens and a row
\* that holds one token twice
C15_Witness ==
    /\ call # NoCall
    /\ NoZeroRows(call.dem)
    /\ Shape0(call.dem) = 2
    /\ \E i \in 1..2 : \A c \in 1..NumTokens : call.dem.rows[i][c] = 1
    /\ \E i \in 1..2 : \E c \in 1..NumTokens : call.dem.rows[i][c] = 2

\* a call with measure 'posterior' that returned a value
PosteriorCall ==
    /\ call # NoCall
    /\ call.measure = "posterior"
    /\ call.out.kind = "value"

\* the tokens with zero mass in both group distributions
ZeroMassTokens ==
    {c \in 1..call.dem.cols : call.st.dem_q[c] = Num(0) /\ call.st.rep_q[c] = Num(0)}

\* document i >= 1 (0-based) of m is the only one of m that uses a token which
\* no document of other uses
LeftOutTokenVanishes(m, other) ==
    \E i \in 2..Shape0(m), c \in 1..m.cols :
        /\ m.rows[i][c] # 0
        /\ UsersOf(m, c) = 1
        /\ ~UsedIn(other, c)

\* C16 (as amended): with measure 'posterior', a token with zero mass in both
\* group distributions has the score rho = 0/0 = NaN, but the sum over a
\* document reads the scores of the tokens of that document only: without
\* leave-out the returned value is finite.  With leave-out the value is NaN
\* exactly when a left-out document i >= 1 is the only user in its group of a
\* token that the other group does not use.
C16_NaNScoreOfUnusedTokenNotRead ==
    PosteriorCall =>
        /\ \A c \in ZeroMassTokens : IsNaN(get_rho(call.st.dem_q, call.st.rep_q)[c])
        /\ ~call.leaveout => IsFinite(call.out.val)
        /\ call.leaveout =>
              (IsNaN(call.out.val) <=>
                  \/ LeftOutTokenVanishes(call.dem, call.rep)
                  \/ LeftOutTokenVanishes(call.rep, call.dem))

\* C16 witness: a call without leave-out on groups that leave a token unused
C16_Witness ==
    /\ PosteriorCall
    /\ ~call.leaveout
    /\ ZeroMassTokens # {}
    /\ Shape0(call.dem) = 2

\* C16 as stated: with measure 'posterior', when a token has zero mass in both
\* group distributions calculate_polarization returns NaN
C16_ZeroMassTokenGivesNaN ==
    (PosteriorCall /\ ZeroMassTokens # {}) => IsNaN(call.out.val)

\* a call without leave-out that returned a value
PlainCall == call # NoCall /\ ~call.leaveout /\ call.out.kind = "value"

\* the distribution of the tokens of m: column sum / total
MassOf(m, c) == Frac(ColSums(m)[c], SumSeq(ColSums(m)))

\* rho = q2 / (q1 + q2), per token
RhoOf(dem_counts, rep_counts) ==
    [c \in 1..dem_counts.cols |->
        FDiv(MassOf(rep_counts, c), FAdd(MassOf(dem_counts, c), MassOf(rep_counts, c)))]

\* the score vectors of the two groups without leave-out
ScoresOfGroup2 ==
    IF call.measure = "posterior" THEN RhoOf(call.dem, call.rep)
    ELSE func(call.measure, call.st.dem_t, call.st.rep_t, call.st.dem_not_t,
              call.st.rep_not_t, call.st.dem_no, call.st.rep_no)

ScoresOfGroup1 ==
    IF call.measure = "posterior"
    THEN [c \in 1..call.dem.cols |-> FSub(Num(1), ScoresOfGroup2[c])]
    ELSE ScoresOfGroup2

\* (1/n) * the sum over the documents of m of (row distribution . scores),
\* the product taken over the tokens of the document
ExpectedScore(m, scores) ==
    VScale(call.measure, Frac(1, Shape0(m)),
        VSum(call.measure, Vec([i \in 1..Shape0(m) |->
            VSum(call.measure,
                 Vec([c \in 1..m.cols |->
                     IF m.rows[i][c] = 0 THEN VZero(call.measure)
                     ELSE VScale(call.measure,
                                 Frac(m.rows[i][c], SumSeq(m.rows[i])), scores[c])]))])))

\* C17: with leaveout False calculate_polarization returns the mean of the two
\* groups' expected scores, each (1/n) times the sum over the group's
\* documents of (row distribution dot score vector); for 'posterior' group 2
\* uses rho = q2 / (q1 + q2) and group 1 uses 1 - rho (the two add up to 1 at
\* every token of positive combined mass), for the other measures one vector
\* serves both groups.
C17_PlainValueIsMeanOfExpectedScores ==
    PlainCall =>
        /\ call.out.val =
              VScale(call.measure, Frac(1, 2),
                     VAdd(call.measure, ExpectedScore(call.dem, ScoresOfGroup1),
                                        ExpectedScore(call.rep, ScoresOfGroup2)))
        /\ call.measure = "posterior" =>
              \A c \in 1..call.dem.cols :
                  (UsedIn(call.dem, c) \/ UsedIn(call.rep, c)) =>
                      FAdd(ScoresOfGroup1[c], ScoresOfGroup2[c]) = Num(1)

\* C17 witness: a 'posterior' call without leave-out on groups of two
\* documents that share a token and differ in another
C17_Witness ==
    /\ PlainCall
    /\ call.measure = "posterior"
    /\ Shape0(call.dem) = 2 /\ Shape0(call.rep) = 2
    /\ \E c \in 1..NumTokens : UsedIn(call.dem, c) /\ UsedIn(call.rep, c)
    /\ \E c \in 1..NumTokens : UsedIn(call.dem, c) /\ ~UsedIn(call.rep, c)

\* the largest factor a count is multiplied by in C18
MaxFactor == 3

\* m with the count of row i, token c multiplied by k
WithCountTimes(m, i, c, k) ==
    [m EXCEPT !.rows[i][c] = k * m.rows[i][c]]

\* party_t is the smoothed presence vector of m, and stays the presence
\* vector when a count of m is multiplied by a factor
IsPresenceCount(party_t, m) ==
    /\ Len(party_t) = m.cols
    /\ \A c \in 1..m.cols :
          party_t[c] = 1 + Cardinality({i \in 1..Shape0(m) : m.rows[i][c] # 0})
    /\ \A i \in 1..Shape0(m), c \in 1..m.cols, k \in 1..MaxFactor :
          get_token_user_counts(WithCountTimes(m, i, c, k)) = party_t

\* C18: get_token_user_counts(C)[t] is 1 plus the number of rows of C with a
\* nonzero count for token t; multiplying a nonzero count by a positive
\* factor leaves the result unchanged.
C18_PresenceCountsPlusOne ==
    call # NoCall =>
        /\ IsPresenceCount(call.st.dem_t, call.dem)
        /\ IsPresenceCount(call.st.rep_t, call.rep)

\* C18 witness: a group of two documents, one holding a token twice, the
\* other not holding it
C18_Witness ==
    /\ call # NoCall
    /\ Shape0(call.dem) = 2
    /\ \E c \in 1..NumTokens : call.dem.rows[1][c] = 2 /\ call.dem.rows[2][c] = 0

\* C19: in every call of a scorer made by calculate_polarization, for each
\* group and each token presence + absence = (group size passed) + 2, without
\* leave-out (size n) and in every leave-out iteration (size n - 1 for the
\* group with a document left out); hence the scorers' all_not_t =
\* no_users - all_t + 4 equals dem_not_t + rep_not_t.
C19_PresencePlusAbsence ==
    call # NoCall =>
        \A k \in 1..Len(call.scorer) :
            LET a == call.scorer[k]
            IN /\ a.dem_no + a.rep_no =
                     Shape0(call.dem) + Shape0(call.rep) - (IF call.leaveout THEN 1 ELSE 0)
               /\ \A c \in 1..call.dem.cols :
                     /\ a.dem_t[c] + a.dem_not_t[c] = a.dem_no + 2
                     /\ a.rep_t[c] + a.rep_not_t[c] = a.rep_no + 2
                     /\ (a.dem_no + a.rep_no) - (a.dem_t[c] + a.rep_t[c]) + 4
                           = a.dem_not_t[c] + a.rep_not_t[c]

\* C19 witness: a leave-out call of a presence measure on groups of two
\* documents: four calls of the scorer
C19_Witness ==
    /\ PresenceLeaveoutCall
    /\ Shape0(call.dem) = 2 /\ Shape0(call.rep) = 2
    /\ Len(call.scorer) = 4
    /\ call.scorer[1].dem_no = 1 /\ call.scorer[3].rep_no = 1

\* the rows of matrix b are the rows of matrix m at the 0-based indices subset
IsSelectionOf(b, m, subset) ==
    /\ b.cols = m.cols
    /\ Shape0(b) = Len(subset)
    /\ \A k \in 1..Len(subset) :
          /\ subset[k] \in 0..(Shape0(m) - 1)
          /\ b.rows[k] = m.rows[subset[k] + 1]

PairwiseDistinct(subset) ==
    \A j, k \in 1..Len(subset) : j # k => subset[j] # subset[k]

Smaller(n1, n2) == IF n1 < n2 THEN n1 ELSE n2

\* C20: in the balancing step, when the groups differ in size the larger
\* group is replaced by exactly min(n1, n2) pairwise distinct rows of itself
\* and the smaller group is left unchanged; when the sizes are equal neither
\* group is changed and no random sample is drawn.
C20_BalancingSamplesLargerGroup ==
    balancing.done =>
        LET dem_counts == balancing.dem_counts
            rep_counts == balancing.rep_counts
            n1 == Shape0(dem_counts)
            n2 == Shape0(rep_counts)
            out == balancing.out
        IN /\ n1 > n2 =>
                 /\ Len(out.subset) = Smaller(n1, n2)
                 /\ PairwiseDistinct(out.subset)
                 /\ IsSelectionOf(out.dem, dem_counts, out.subset)
                 /\ out.rep = rep_counts
           /\ n2 > n1 =>
                 /\ Len(out.subset) = Smaller(n1, n2)
                 /\ PairwiseDistinct(out.subset)
                 /\ IsSelectionOf(out.rep, rep_counts, out.subset)
                 /\ out.dem = dem_counts
           /\ n1 = n2 =>
                 /\ out.dem = dem_counts
                 /\ out.rep = rep_counts
                 /\ out.subset = <<>>
                 /\ out.rng = balancing.RNG

\* C20 witness: a group of four rows balanced against a group of three: three
\* rows are sampled, and the generator has advanced
C20_Witness ==
    /\ balancing.done
    /\ Shape0(balancing.dem_counts) = MaxBalanceDocs
    /\ Shape0(balancing.rep_counts) = MaxBalanceDocs - 1
    /\ Shape0(balancing.out.dem) = MaxBalanceDocs - 1
    /\ balancing.out.rng # balancing.RNG

\* how often row r occurs in matrix m
RowCount(m, r) == Cardinality({k \in 1..Shape0(m) : m.rows[k] = r})

RowsOfMatrix(m) == {m.rows[k] : k \in 1..Shape0(m)}

\* both calls of calculate_polarization of the invocation were made
BothCallsMade == run # NoRun /\ run.path = "estimate" /\ Len(run.calls) = 2

\* C21: the two matrices of the null call together contain exactly the rows
\* of the two matrices of the actual call, each row as often as there (the
\* shuffle permutes the combined rows), and the columns are the same.
C21_NullRowsArePermutation ==
    BothCallsMade =>
        LET actual == run.calls[1]
            null == run.calls[2]
        IN /\ null.dem.cols = actual.dem.cols
           /\ null.rep.cols = actual.rep.cols
           /\ Shape0(null.dem) + Shape0(null.rep) = Shape0(actual.dem) + Shape0(actual.rep)
           /\ \A r \in RowsOfMatrix(actual.dem) \cup RowsOfMatrix(actual.rep)
                       \cup RowsOfMatrix(null.dem) \cup RowsOfMatrix(null.rep) :
                 RowCount(null.dem, r) + RowCount(null.rep, r)
                    = RowCount(actual.dem, r) + RowCount(actual.rep, r)

\* C21 witness: an invocation that returns after both calls, on four rows,
\* whose null split differs from the actual one
C21_Witness ==
    /\ BothCallsMade
    /\ run.status = "returned"
    /\ Shape0(run.calls[1].dem) = 2 /\ Shape0(run.calls[1].rep) = 2
    /\ run.calls[2].dem # run.calls[1].dem
    /\ run.calls[1].dem.rows[1] # run.calls[1].dem.rows[2]

\* the group-level objects of store S are those computed before the loops
GroupLevelUnchanged(S) ==
    /\ S.dem_counts = call.dem /\ S.rep_counts = call.rep
    /\ S.dem_q = call.st.dem_q /\ S.rep_q = call.st.rep_q
    /\ S.dem_t = call.st.dem_t /\ S.rep_t = call.st.rep_t
    /\ S.dem_not_t = call.st.dem_not_t /\ S.rep_not_t = call.st.rep_not_t

\* the statistics of the iteration that ended in store S, which left out
\* document j of party_counts, are those of that document alone: the presence
\* counts are the recount without document j; the distribution is the one
\* without document j (of the whole group when j = 0, for which nothing is
\* subtracted)
IterationOfDocumentAlone(S, party_counts, j) ==
    IF call.measure = "posterior"
    THEN S.leaveout_q = IF j = 0 THEN get_party_q(party_counts, PyNone)
                        ELSE get_party_q(RemoveRow(party_counts, j), PyNone)
    ELSE S.leaveout_t = get_token_user_counts(RemoveRow(party_counts, j))

\* C22: calculate_polarization does not modify its input matrices, and the
\* group-level vectors dem_q, rep_q, dem_t, rep_t, dem_not_t, rep_not_t have
\* the same values before the first leave-out iteration, between any two
\* iterations and after the last; the statistics for leaving out document j
\* contain no decrement made for another document.
C22_IterationsIndependent ==
    call # NoCall =>
        \A k \in 1..Len(call.stores) :
            /\ GroupLevelUnchanged(call.stores[k])
            /\ k > 1 =>
                  IF k - 1 <= Shape0(call.dem)
                  THEN IterationOfDocumentAlone(call.stores[k], call.dem, k - 2)
                  ELSE IterationOfDocumentAlone(call.stores[k], call.rep,
                                                k - 2 - Shape0(call.dem))

\* C22 witness: a leave-out call of a presence measure with two documents in
\* each group, both documents of group 1 using a token: four iterations
C22_Witness ==
    /\ PresenceLeaveoutCall
    /\ Len(call.stores) = 5
    /\ Shape0(call.dem) = 2
    /\ \E c \in 1..call.dem.cols : call.dem.rows[1][c] > 0 /\ call.dem.rows[2][c] > 0
    /\ call.stores[3].leaveout_t # call.stores[5].leaveout_t

\* the token score vectors of every evaluation of a 'posterior' call: the
\* two of the call without leave-out, or one for every leave-out iteration
PosteriorTokenScores ==
    IF ~call.leaveout
    THEN <<OneMinus(get_rho(call.st.dem_q, call.st.rep_q)),
           get_rho(call.st.dem_q, call.st.rep_q)>>
    ELSE [k \in 1..Shape0(call.dem) |->
             token_scores_dem_leaveout(call.dem, call.st, "posterior", k - 1)]
         \o [k \in 1..Shape0(call.rep) |->
                token_scores_rep_leaveout(call.rep, call.st, "posterior", k - 1)]

NoScoreIsNaN ==
    \A k \in 1..Len(PosteriorTokenScores) :
        \A c \in 1..call.dem.cols : ~IsNaN(PosteriorTokenScores[k][c])

InUnitInterval(a) == IsFinite(a) /\ 0 <= a[1] /\ a[1] <= a[2]

\* C23: with measure 'posterior' (with or without leave-out), whenever no
\* token score is 0/0, every token score lies in [0, 1] and the polarization
\* returned lies in [0, 1].
C23_PosteriorInUnitInterval ==
    (PosteriorCall /\ NoScoreIsNaN) =>
        /\ \A k \in 1..Len(PosteriorTokenScores) :
              \A c \in 1..call.dem.cols : InUnitInterval(PosteriorTokenScores[k][c])
        /\ InUnitInterval(call.out.val)

\* C23 witness: a leave-out call on two documents per group without a 0/0
\* score, with a value strictly inside the interval and a score of 0 or 1
C23_Witness ==
    /\ PosteriorLeaveoutCall
    /\ NoScoreIsNaN
    /\ Shape0(call.dem) = 2 /\ Shape0(call.rep) = 2
    /\ 0 < call.out.val[1] /\ call.out.val[1] < call.out.val[2]
    /\ \E k \in 1..Len(PosteriorTokenScores), c \in 1..call.dem.cols :
          PosteriorTokenScores[k][c] = Num(1)

\* chi_denom of chi_square for token c of the arguments a
ChiDenom(a, c) ==
    LET all_t == a.dem_t[c] + a.rep_t[c]
        all_not_t == (a.dem_no + a.rep_no) - all_t + 4
    IN all_t * all_not_t * (a.dem_t[c] + a.dem_not_t[c]) * (a.rep_t[c] + a.rep_not_t[c])

\* C24: in every call of mutual_information or chi_square made by
\* calculate_polarization (without leave-out and in every leave-out
\* iteration) the four smoothed counts are at least 1 for every token, so
\* the chi-square denominator is strictly positive and the counts in the
\* logarithm arguments (with all_t and all_not_t) are positive.
C24_SmoothedCountsPositive ==
    call # NoCall =>
        \A k \in 1..Len(call.scorer) :
            LET a == call.scorer[k]
            IN \A c \in 1..call.dem.cols :
                  /\ a.dem_t[c] >= 1 /\ a.rep_t[c] >= 1
                  /\ a.dem_not_t[c] >= 1 /\ a.rep_not_t[c] >= 1
                  /\ a.dem_t[c] + a.rep_t[c] > 0
                  /\ (a.dem_no + a.rep_no) - (a.dem_t[c] + a.rep_t[c]) + 4 > 0
                  /\ ChiDenom(a, c) > 0

\* C24 witness: a leave-out iteration in which a presence count and an
\* absence count are exactly 1: the document left out is the only user of one
\* token, and all remaining documents of its group use another
C24_Witness ==
    /\ PresenceLeaveoutCall
    /\ Shape0(call.dem) = 2
    /\ \E k \in 1..Len(call.scorer), c, d \in 1..call.dem.cols :
          /\ call.scorer[k].dem_no = 1
          /\ call.scorer[k].dem_t[c] = 1
          /\ call.st.dem_t[c] = 2
          /\ call.scorer[k].dem_not_t[d] = 1

\* C25: in every call of mutual_information made by calculate_polarization
\* with leaveout = True, both group sizes passed are at least 1, a group of a
\* single document included.
C25_LeaveoutGroupSizesPositive ==
    (call # NoCall /\ call.measure = "mutual_information" /\ call.leaveout) =>
        \A k \in 1..Len(call.scorer) :
            call.scorer[k].dem_no >= 1 /\ call.scorer[k].rep_no >= 1

\* a float greater than 0 (NaN is not)
IsPositive(a) == a[1] > 0

\* the denominators dem_q[c] + rep_q[c] of get_rho in the evaluations of a
\* 'posterior' call on dem_counts and rep_counts are all positive
RhoDenominatorsPositive(dem_counts, rep_counts, leaveout) ==
    LET dem_q == get_party_q(dem_counts, PyNone)
        rep_q == get_party_q(rep_counts, PyNone)
    IN \A c \in 1..dem_counts.cols :
          IF ~leaveout
          THEN IsPositive(FAdd(dem_q[c], rep_q[c]))
          ELSE /\ \A i \in 0..(Shape0(dem_counts) - 1) :
                     IsPositive(FAdd(get_party_q(dem_counts, i)[c], rep_q[c]))
               /\ \A i \in 0..(Shape0(rep_counts) - 1) :
                     IsPositive(FAdd(dem_q[c], get_party_q(rep_counts, i)[c]))

\* the call reaches its evaluations of get_rho: the assertions pass; a
\* division by a group size of zero comes after them
ReachesEvaluation(c) ==
    c.out.kind = "value" \/ (c.out.kind = "raise" /\ c.out.exc = "ZeroDivisionError")

\* C26: when calculate_polarization is reached through get_leaveout_score
\* with measure 'posterior' (actual and null call, with or without
\* leave-out), the denominator q1[t] + q2[t] of rho is strictly positive for
\* every retained token in every evaluation, every leave-out iteration
\* included.
C26_PipelineRhoDenominatorPositive ==
    (run # NoRun /\ run.path = "estimate" /\ run.inputs.measure = "posterior") =>
        \A k \in 1..Len(run.calls) :
            ReachesEvaluation(run.calls[k]) =>
                RhoDenominatorsPositive(run.calls[k].dem, run.calls[k].rep,
                                        run.inputs.leaveout)

\* C27: whenever get_leaveout_score calls calculate_polarization (actual
\* score and null baseline), both matrices passed have at least one row.
C27_PipelineCallsHaveRows ==
    (run # NoRun /\ run.path = "estimate") =>
        \A k \in 1..Len(run.calls) :
            Shape0(run.calls[k].dem) >= 1 /\ Shape0(run.calls[k].rep) >= 1

\* C28: whenever get_leaveout_score runs the estimator, each of the two
\* groups passed to calculate_polarization for the actual score has at least
\* min_docs documents.
C28_ActualGroupsHaveMinDocs ==
    (run # NoRun /\ run.path = "estimate" /\ Len(run.calls) >= 1) =>
        /\ Shape0(run.calls[1].dem) >= run.inputs.min_docs
        /\ Shape0(run.calls[1].rep) >= run.inputs.min_docs

\* the two groups of the call are the same count matrix, in which every
\* token is used by some document
SameGroupsAllTokensUsed ==
    /\ call.dem = call.rep
    /\ Shape0(call.dem) >= 1
    /\ \A c \in 1..call.dem.cols : UsedIn(call.dem, c)

\* C29: with measure 'posterior' and leaveout = False, when both groups are
\* the same count matrix (no all-zero row, every token used),
\* calculate_polarization returns exactly 1/2, the default default_score.
C29_SameGroupsGiveOneHalf ==
    (PosteriorPlainCall /\ SameGroupsAllTokensUsed) =>
        /\ call.out.val = Frac(1, 2)
        /\ call.out.val \in DefaultScores

\* C29 witness: the same matrix of two different documents in both groups,
\* one of them using both tokens
C29_Witness ==
    /\ PosteriorPlainCall
    /\ SameGroupsAllTokensUsed
    /\ Shape0(call.dem) = 2
    /\ call.dem.rows[1] # call.dem.rows[2]
    /\ \A c \in 1..call.dem.cols : call.dem.rows[2][c] > 0
    /\ call.out.val = Frac(1, 2)

\* the value of the chosen metric in evaluation k of the training loop
ChosenMetricOf(k) == trainer.evals[k].metrics[chosen_metric(trainer.task)]

\* C30: after any sequence of evaluations of _training_loop the checkpoint at
\* model_save_path is the model state of an evaluation with the highest value
\* of the chosen metric seen so far (so that a later evaluation with a worse
\* value has not overwritten it).
C30_CheckpointIsBestEvaluation ==
    (trainer.status \in {"training", "done"} /\ Len(trainer.evals) >= 1) =>
        /\ trainer.checkpoint.written
        /\ \E k \in 1..Len(trainer.evals) :
              /\ trainer.evals[k].global_step = trainer.checkpoint.global_step
              /\ \A j \in 1..Len(trainer.evals) :
                    ~FLess(ChosenMetricOf(k), ChosenMetricOf(j))

=============================================================================
